---- MODULE Spec2Model ----
(***************************************************************************)
(* Model of the html-tools helper scripts.                                 *)
(*                                                                         *)
(*   py_gen_config2.py : walks pages/, parses every *.html file, keeps the *)
(*                       ones whose <meta name="show"> passes the          *)
(*                       visibility gate and dumps them as                 *)
(*                       tools-config.json.                                *)
(*   start_server.py   : serves the script directory on a fixed port and   *)
(*                       opens a browser.                                  *)
(*                                                                         *)
(* A Python str is a sequence of characters, each character a TLA+ string. *)
(* Characters outside ASCII are named by their code point.                 *)
(***************************************************************************)
EXTENDS Integers, Sequences, FiniteSets, TLC

VARIABLES
    listing,        \* os.scandir as os.walk sees it: directory path -> [dirs, files, links]
    content,        \* file path -> parsed document (what BeautifulSoup sees)
    tools,          \* module global `tools`, aliased by configs["tools"]
    html_files,     \* local of gen_config: result of get_html_files("pages")
    idx,            \* position of the for loop of gen_config (1-based)
    parsed,         \* history: the files parse_html_config was called on in this run
    pc,             \* control point of the builder
    runs,           \* number of gen_config invocations started in this process
    disk,           \* content of tools-config.json
    raised,         \* the exception that ended the process ("" when none)
    firstTools,     \* history: the tools sequence returned by the first gen_config
    env,            \* environment of start_server.py (what the host OS will answer)
    spc,            \* control point of the launcher
    out,            \* messages printed by the launcher, in order
    bound,          \* port PORT is bound by this process
    browserOpened,  \* webbrowser.open has been called
    served,         \* serve_forever has been entered
    pending,        \* exception in flight in the launcher
    exitStatus      \* process exit status of the launcher (-1 while running)

bvars == <<listing, content, tools, html_files, idx, parsed, pc, runs, disk, raised,
          firstTools>>
svars == <<env, spc, out, bound, browserOpened, served, pending, exitStatus>>
vars == <<bvars, svars>>

-----------------------------------------------------------------------------
(* Bounds of the model.                                                    *)

MaxFiles == 3       \* files placed under pages/
MaxRuns == 2        \* gen_config invocations in one process
MaxLen == 3         \* length of a features content drawn in SpecFeatures

-----------------------------------------------------------------------------
(* Python str operations.                                                  *)

FullWidthComma == "U+FF0C"

Str_pages == <<"p", "a", "g", "e", "s">>
Str_dot_html == <<".", "h", "t", "m", "l">>
Str_false == <<"f", "a", "l", "s", "e">>
Str_true == <<"t", "r", "u", "e">>

\* s[from:] for a 1-based position
DropBefore(s, from) == SubSeq(s, from, Len(s))

\* str.endswith
EndsWith(s, suffix) ==
    /\ Len(s) >= Len(suffix)
    /\ SubSeq(s, Len(s) - Len(suffix) + 1, Len(s)) = suffix

\* str.startswith
StartsWith(s, prefix) ==
    /\ Len(s) >= Len(prefix)
    /\ SubSeq(s, 1, Len(prefix)) = prefix

\* position of the first occurrence of character c in s, 0 when there is none
RECURSIVE FindFrom(_, _, _)
FindFrom(s, c, i) ==
    IF i > Len(s) THEN 0
    ELSE IF s[i] = c THEN i
    ELSE FindFrom(s, c, i + 1)

\* position of the last occurrence of character c in s, 0 when there is none
RECURSIVE RFindFrom(_, _, _)
RFindFrom(s, c, i) ==
    IF i < 1 THEN 0
    ELSE IF s[i] = c THEN i
    ELSE RFindFrom(s, c, i - 1)

\* a mutant of Split: like str.split() without a separator, empty fields dropped
RECURSIVE SplitDropEmpty(_, _)
SplitDropEmpty(s, sep) ==
    LET p == FindFrom(s, sep, 1) IN
    IF p = 0 THEN (IF s = <<>> THEN <<>> ELSE <<s>>)
    ELSE (IF p = 1 THEN <<>> ELSE <<SubSeq(s, 1, p - 1)>>)
         \o SplitDropEmpty(DropBefore(s, p + 1), sep)

\* str.split(sep) for a one-character separator: every separator ends a field
RECURSIVE Split(_, _)
Split(s, sep) ==
    LET p == FindFrom(s, sep, 1) IN
    IF p = 0 THEN <<s>>
    ELSE <<SubSeq(s, 1, p - 1)>> \o Split(DropBefore(s, p + 1), sep)

\* the white space int() skips around the literal: the ASCII white space of C
\* and, beyond ASCII, the characters str.isspace holds of
Whitespace ==
    {
      "\t", "\n", "U+000B", "\f", "\r", " ", "U+0085", "U+00A0", "U+1680", "U+2000",
      "U+2001", "U+2002", "U+2003", "U+2004", "U+2005", "U+2006", "U+2007", "U+2008",
      "U+2009", "U+200A", "U+2028", "U+2029", "U+202F", "U+205F", "U+3000"
    }

\* what int() does with the white space in front of the literal
RECURSIVE LStrip(_)
LStrip(s) == IF s # <<>> /\ Head(s) \in Whitespace THEN LStrip(Tail(s)) ELSE s

\* what int() does with the white space behind the literal
RECURSIVE RStrip(_)
RStrip(s) ==
    IF s # <<>> /\ s[Len(s)] \in Whitespace THEN RStrip(SubSeq(s, 1, Len(s) - 1)) ELSE s

Strip(s) == RStrip(LStrip(s))

\* the decimal digits of Unicode (category Nd), one block per script, each
\* block its digits zero to nine: int() reads every one of them
DigitBlocks ==
    <<
      <<"0", "1", "2", "3", "4", "5", "6", "7", "8", "9">>,
      <<"U+0660", "U+0661", "U+0662", "U+0663", "U+0664", "U+0665", "U+0666", "U+0667", "U+0668", "U+0669">>,
      <<"U+06F0", "U+06F1", "U+06F2", "U+06F3", "U+06F4", "U+06F5", "U+06F6", "U+06F7", "U+06F8", "U+06F9">>,
      <<"U+07C0", "U+07C1", "U+07C2", "U+07C3", "U+07C4", "U+07C5", "U+07C6", "U+07C7", "U+07C8", "U+07C9">>,
      <<"U+0966", "U+0967", "U+0968", "U+0969", "U+096A", "U+096B", "U+096C", "U+096D", "U+096E", "U+096F">>,
      <<"U+09E6", "U+09E7", "U+09E8", "U+09E9", "U+09EA", "U+09EB", "U+09EC", "U+09ED", "U+09EE", "U+09EF">>,
      <<"U+0A66", "U+0A67", "U+0A68", "U+0A69", "U+0A6A", "U+0A6B", "U+0A6C", "U+0A6D", "U+0A6E", "U+0A6F">>,
      <<"U+0AE6", "U+0AE7", "U+0AE8", "U+0AE9", "U+0AEA", "U+0AEB", "U+0AEC", "U+0AED", "U+0AEE", "U+0AEF">>,
      <<"U+0B66", "U+0B67", "U+0B68", "U+0B69", "U+0B6A", "U+0B6B", "U+0B6C", "U+0B6D", "U+0B6E", "U+0B6F">>,
      <<"U+0BE6", "U+0BE7", "U+0BE8", "U+0BE9", "U+0BEA", "U+0BEB", "U+0BEC", "U+0BED", "U+0BEE", "U+0BEF">>,
      <<"U+0C66", "U+0C67", "U+0C68", "U+0C69", "U+0C6A", "U+0C6B", "U+0C6C", "U+0C6D", "U+0C6E", "U+0C6F">>,
      <<"U+0CE6", "U+0CE7", "U+0CE8", "U+0CE9", "U+0CEA", "U+0CEB", "U+0CEC", "U+0CED", "U+0CEE", "U+0CEF">>,
      <<"U+0D66", "U+0D67", "U+0D68", "U+0D69", "U+0D6A", "U+0D6B", "U+0D6C", "U+0D6D", "U+0D6E", "U+0D6F">>,
      <<"U+0DE6", "U+0DE7", "U+0DE8", "U+0DE9", "U+0DEA", "U+0DEB", "U+0DEC", "U+0DED", "U+0DEE", "U+0DEF">>,
      <<"U+0E50", "U+0E51", "U+0E52", "U+0E53", "U+0E54", "U+0E55", "U+0E56", "U+0E57", "U+0E58", "U+0E59">>,
      <<"U+0ED0", "U+0ED1", "U+0ED2", "U+0ED3", "U+0ED4", "U+0ED5", "U+0ED6", "U+0ED7", "U+0ED8", "U+0ED9">>,
      <<"U+0F20", "U+0F21", "U+0F22", "U+0F23", "U+0F24", "U+0F25", "U+0F26", "U+0F27", "U+0F28", "U+0F29">>,
      <<"U+1040", "U+1041", "U+1042", "U+1043", "U+1044", "U+1045", "U+1046", "U+1047", "U+1048", "U+1049">>,
      <<"U+1090", "U+1091", "U+1092", "U+1093", "U+1094", "U+1095", "U+1096", "U+1097", "U+1098", "U+1099">>,
      <<"U+17E0", "U+17E1", "U+17E2", "U+17E3", "U+17E4", "U+17E5", "U+17E6", "U+17E7", "U+17E8", "U+17E9">>,
      <<"U+1810", "U+1811", "U+1812", "U+1813", "U+1814", "U+1815", "U+1816", "U+1817", "U+1818", "U+1819">>,
      <<"U+1946", "U+1947", "U+1948", "U+1949", "U+194A", "U+194B", "U+194C", "U+194D", "U+194E", "U+194F">>,
      <<"U+19D0", "U+19D1", "U+19D2", "U+19D3", "U+19D4", "U+19D5", "U+19D6", "U+19D7", "U+19D8", "U+19D9">>,
      <<"U+1A80", "U+1A81", "U+1A82", "U+1A83", "U+1A84", "U+1A85", "U+1A86", "U+1A87", "U+1A88", "U+1A89">>,
      <<"U+1A90", "U+1A91", "U+1A92", "U+1A93", "U+1A94", "U+1A95", "U+1A96", "U+1A97", "U+1A98", "U+1A99">>,
      <<"U+1B50", "U+1B51", "U+1B52", "U+1B53", "U+1B54", "U+1B55", "U+1B56", "U+1B57", "U+1B58", "U+1B59">>,
      <<"U+1BB0", "U+1BB1", "U+1BB2", "U+1BB3", "U+1BB4", "U+1BB5", "U+1BB6", "U+1BB7", "U+1BB8", "U+1BB9">>,
      <<"U+1C40", "U+1C41", "U+1C42", "U+1C43", "U+1C44", "U+1C45", "U+1C46", "U+1C47", "U+1C48", "U+1C49">>,
      <<"U+1C50", "U+1C51", "U+1C52", "U+1C53", "U+1C54", "U+1C55", "U+1C56", "U+1C57", "U+1C58", "U+1C59">>,
      <<"U+A620", "U+A621", "U+A622", "U+A623", "U+A624", "U+A625", "U+A626", "U+A627", "U+A628", "U+A629">>,
      <<"U+A8D0", "U+A8D1", "U+A8D2", "U+A8D3", "U+A8D4", "U+A8D5", "U+A8D6", "U+A8D7", "U+A8D8", "U+A8D9">>,
      <<"U+A900", "U+A901", "U+A902", "U+A903", "U+A904", "U+A905", "U+A906", "U+A907", "U+A908", "U+A909">>,
      <<"U+A9D0", "U+A9D1", "U+A9D2", "U+A9D3", "U+A9D4", "U+A9D5", "U+A9D6", "U+A9D7", "U+A9D8", "U+A9D9">>,
      <<"U+A9F0", "U+A9F1", "U+A9F2", "U+A9F3", "U+A9F4", "U+A9F5", "U+A9F6", "U+A9F7", "U+A9F8", "U+A9F9">>,
      <<"U+AA50", "U+AA51", "U+AA52", "U+AA53", "U+AA54", "U+AA55", "U+AA56", "U+AA57", "U+AA58", "U+AA59">>,
      <<"U+ABF0", "U+ABF1", "U+ABF2", "U+ABF3", "U+ABF4", "U+ABF5", "U+ABF6", "U+ABF7", "U+ABF8", "U+ABF9">>,
      <<"U+FF10", "U+FF11", "U+FF12", "U+FF13", "U+FF14", "U+FF15", "U+FF16", "U+FF17", "U+FF18", "U+FF19">>,
      <<"U+104A0", "U+104A1", "U+104A2", "U+104A3", "U+104A4", "U+104A5", "U+104A6", "U+104A7", "U+104A8", "U+104A9">>,
      <<"U+10D30", "U+10D31", "U+10D32", "U+10D33", "U+10D34", "U+10D35", "U+10D36", "U+10D37", "U+10D38", "U+10D39">>,
      <<"U+11066", "U+11067", "U+11068", "U+11069", "U+1106A", "U+1106B", "U+1106C", "U+1106D", "U+1106E", "U+1106F">>,
      <<"U+110F0", "U+110F1", "U+110F2", "U+110F3", "U+110F4", "U+110F5", "U+110F6", "U+110F7", "U+110F8", "U+110F9">>,
      <<"U+11136", "U+11137", "U+11138", "U+11139", "U+1113A", "U+1113B", "U+1113C", "U+1113D", "U+1113E", "U+1113F">>,
      <<"U+111D0", "U+111D1", "U+111D2", "U+111D3", "U+111D4", "U+111D5", "U+111D6", "U+111D7", "U+111D8", "U+111D9">>,
      <<"U+112F0", "U+112F1", "U+112F2", "U+112F3", "U+112F4", "U+112F5", "U+112F6", "U+112F7", "U+112F8", "U+112F9">>,
      <<"U+11450", "U+11451", "U+11452", "U+11453", "U+11454", "U+11455", "U+11456", "U+11457", "U+11458", "U+11459">>,
      <<"U+114D0", "U+114D1", "U+114D2", "U+114D3", "U+114D4", "U+114D5", "U+114D6", "U+114D7", "U+114D8", "U+114D9">>,
      <<"U+11650", "U+11651", "U+11652", "U+11653", "U+11654", "U+11655", "U+11656", "U+11657", "U+11658", "U+11659">>,
      <<"U+116C0", "U+116C1", "U+116C2", "U+116C3", "U+116C4", "U+116C5", "U+116C6", "U+116C7", "U+116C8", "U+116C9">>,
      <<"U+11730", "U+11731", "U+11732", "U+11733", "U+11734", "U+11735", "U+11736", "U+11737", "U+11738", "U+11739">>,
      <<"U+118E0", "U+118E1", "U+118E2", "U+118E3", "U+118E4", "U+118E5", "U+118E6", "U+118E7", "U+118E8", "U+118E9">>,
      <<"U+11950", "U+11951", "U+11952", "U+11953", "U+11954", "U+11955", "U+11956", "U+11957", "U+11958", "U+11959">>,
      <<"U+11C50", "U+11C51", "U+11C52", "U+11C53", "U+11C54", "U+11C55", "U+11C56", "U+11C57", "U+11C58", "U+11C59">>,
      <<"U+11D50", "U+11D51", "U+11D52", "U+11D53", "U+11D54", "U+11D55", "U+11D56", "U+11D57", "U+11D58", "U+11D59">>,
      <<"U+11DA0", "U+11DA1", "U+11DA2", "U+11DA3", "U+11DA4", "U+11DA5", "U+11DA6", "U+11DA7", "U+11DA8", "U+11DA9">>,
      <<"U+16A60", "U+16A61", "U+16A62", "U+16A63", "U+16A64", "U+16A65", "U+16A66", "U+16A67", "U+16A68", "U+16A69">>,
      <<"U+16AC0", "U+16AC1", "U+16AC2", "U+16AC3", "U+16AC4", "U+16AC5", "U+16AC6", "U+16AC7", "U+16AC8", "U+16AC9">>,
      <<"U+16B50", "U+16B51", "U+16B52", "U+16B53", "U+16B54", "U+16B55", "U+16B56", "U+16B57", "U+16B58", "U+16B59">>,
      <<"U+1D7CE", "U+1D7CF", "U+1D7D0", "U+1D7D1", "U+1D7D2", "U+1D7D3", "U+1D7D4", "U+1D7D5", "U+1D7D6", "U+1D7D7">>,
      <<"U+1D7D8", "U+1D7D9", "U+1D7DA", "U+1D7DB", "U+1D7DC", "U+1D7DD", "U+1D7DE", "U+1D7DF", "U+1D7E0", "U+1D7E1">>,
      <<"U+1D7E2", "U+1D7E3", "U+1D7E4", "U+1D7E5", "U+1D7E6", "U+1D7E7", "U+1D7E8", "U+1D7E9", "U+1D7EA", "U+1D7EB">>,
      <<"U+1D7EC", "U+1D7ED", "U+1D7EE", "U+1D7EF", "U+1D7F0", "U+1D7F1", "U+1D7F2", "U+1D7F3", "U+1D7F4", "U+1D7F5">>,
      <<"U+1D7F6", "U+1D7F7", "U+1D7F8", "U+1D7F9", "U+1D7FA", "U+1D7FB", "U+1D7FC", "U+1D7FD", "U+1D7FE", "U+1D7FF">>,
      <<"U+1E140", "U+1E141", "U+1E142", "U+1E143", "U+1E144", "U+1E145", "U+1E146", "U+1E147", "U+1E148", "U+1E149">>,
      <<"U+1E2F0", "U+1E2F1", "U+1E2F2", "U+1E2F3", "U+1E2F4", "U+1E2F5", "U+1E2F6", "U+1E2F7", "U+1E2F8", "U+1E2F9">>,
      <<"U+1E950", "U+1E951", "U+1E952", "U+1E953", "U+1E954", "U+1E955", "U+1E956", "U+1E957", "U+1E958", "U+1E959">>,
      <<"U+1FBF0", "U+1FBF1", "U+1FBF2", "U+1FBF3", "U+1FBF4", "U+1FBF5", "U+1FBF6", "U+1FBF7", "U+1FBF8", "U+1FBF9">>
    >>

DigitChars == { DigitBlocks[b][d] : b \in 1..Len(DigitBlocks), d \in 1..10 }

DigitTable ==
    [c \in DigitChars |->
        (CHOOSE d \in 1..10 : \E b \in 1..Len(DigitBlocks) : DigitBlocks[b][d] = c) - 1]

IsDigit(c) == c \in DigitChars

DigitValue(c) == DigitTable[c]

\* digits of an int literal: groups of digits separated by single underscores
DigitsOk(s) ==
    /\ s # <<>>
    /\ \A i \in 1..Len(s) :
         \/ IsDigit(s[i])
         \/ /\ s[i] = "_"
            /\ 1 < i /\ i < Len(s)
            /\ IsDigit(s[i - 1]) /\ IsDigit(s[i + 1])

RECURSIVE DigitsValue(_, _)
DigitsValue(s, acc) ==
    IF s = <<>> THEN acc
    ELSE IF Head(s) = "_" THEN DigitsValue(Tail(s), acc)
    ELSE DigitsValue(Tail(s), 10 * acc + DigitValue(Head(s)))

\* the number of digits of a literal, its underscores left out
DigitCount(s) == Len(SelectSeq(s, LAMBDA c : c # "_"))

\* sys.int_info.default_max_str_digits: int() refuses a longer literal
IntMaxStrDigits == 4300

Unsigned(s) == IF s # <<>> /\ Head(s) \in {"+", "-"} THEN Tail(s) ELSE s

\* int(s) raises ValueError exactly when this is false
IntLiteral(s) ==
    /\ DigitsOk(Unsigned(Strip(s)))
    /\ DigitCount(Unsigned(Strip(s))) <= IntMaxStrDigits

\* int(s) for a literal
IntValue(s) ==
    LET t == Strip(s)
        n == DigitsValue(Unsigned(t), 0)
    IN IF t # <<>> /\ Head(t) = "-" THEN 0 - n ELSE n

-----------------------------------------------------------------------------
(* os.path on POSIX.                                                       *)

\* os.path.join(a, b)
PathJoin(a, b) ==
    IF StartsWith(b, <<"/">>) THEN b
    ELSE IF a = <<>> \/ EndsWith(a, <<"/">>) THEN a \o b
    ELSE a \o <<"/">> \o b

\* os.path.basename(p)
Basename(p) == DropBefore(p, RFindFrom(p, "/", Len(p)) + 1)

-----------------------------------------------------------------------------
(* Python values held by a config dict and written by json.dump.  One record *)
(* shape for every type: t is the Python type, the other fields its value. *)

PyStr(s) == [t |-> "str", s |-> s, n |-> 0, l |-> <<>>]
PyNone == [t |-> "NoneType", s |-> <<>>, n |-> 0, l |-> <<>>]
PyInt(n) == [t |-> "int", s |-> <<>>, n |-> n, l |-> <<>>]
PyList(l) == [t |-> "list", s |-> <<>>, n |-> 0, l |-> l]

\* d[key] for a dict kept as its items in insertion order
Get(d, key) == d[CHOOSE i \in 1..Len(d) : d[i].k = key].v

\* list(d): the keys in insertion order
Keys(d) == [i \in 1..Len(d) |-> d[i].k]

-----------------------------------------------------------------------------
(* The parsed document: BeautifulSoup(html_content, "html.parser").        *)
(*   title : [present, children]   the first <title> element and its text  *)
(*                                 children                                *)
(*   metas : sequence of [name, hasContent, content], the <meta> tags in   *)
(*           document order                                                *)

NoTitle == [present |-> FALSE, children |-> <<>>]
Title(children) == [present |-> TRUE, children |-> children]
Meta(name, c) == [name |-> name, hasContent |-> TRUE, content |-> c]
BareMeta(name) == [name |-> name, hasContent |-> FALSE, content |-> <<>>]

\* soup.find("meta", attrs={"name": name}): index of the first match, 0 for None
RECURSIVE FindMetaFrom(_, _, _)
FindMetaFrom(doc, name, i) ==
    IF i > Len(doc.metas) THEN 0
    ELSE IF doc.metas[i].name = name THEN i
    ELSE FindMetaFrom(doc, name, i + 1)

FindMeta(doc, name) == FindMetaFrom(doc, name, 1)

\* tag["content"] raises KeyError
MetaRaises(doc, name) ==
    FindMeta(doc, name) # 0 /\ ~doc.metas[FindMeta(doc, name)].hasContent

\* tag["content"] if tag else default
MetaContent(doc, name, default) ==
    IF FindMeta(doc, name) = 0 THEN default ELSE doc.metas[FindMeta(doc, name)].content

\* Tag.string: the only child when there is exactly one, else None
TagString(children) ==
    IF Len(children) = 1 THEN PyStr(children[1]) ELSE PyNone

-----------------------------------------------------------------------------
(* parse_html_config                                                       *)

\* a mutant of Hidden: the gate is never applied
HiddenNever(show) == FALSE

\* line 43: show == "false"
Hidden(show) == show = Str_false

\* lines 41-42: the show content, "false" when the tag is absent
ShowOf(doc) == MetaContent(doc, "show", Str_false)

\* lines 47-48
TitleOf(doc, file_path) ==
    IF doc.title.present THEN TagString(doc.title.children)
    ELSE PyStr(Split(Basename(file_path), ".")[1])

\* lines 63-65
FeaturesOf(doc) == Split(MetaContent(doc, "features", <<>>), FullWidthComma)

\* a mutant of UrlOf: the path is made relative to the scan root
UrlRelativeToRoot(file_path) ==
    IF StartsWith(file_path, Str_pages \o <<"/">>)
    THEN DropBefore(file_path, Len(Str_pages) + 2)
    ELSE file_path

\* line 77: "url": file_path
UrlOf(file_path) == file_path

\* a mutant of BuildConfig: the keys in the order of the data-model table
BuildConfigTableOrder(icon, title, keywords, features, description, url, rank) ==
    << [k |-> "title", v |-> title],
       [k |-> "keywords", v |-> PyStr(keywords)],
       [k |-> "description", v |-> PyStr(description)],
       [k |-> "icon", v |-> PyStr(icon)],
       [k |-> "features", v |-> PyList(features)],
       [k |-> "url", v |-> PyStr(url)],
       [k |-> "rank", v |-> PyInt(rank)] >>

\* lines 71-79: the dict literal, items in insertion order
BuildConfig(icon, title, keywords, features, description, url, rank) ==
    << [k |-> "icon", v |-> PyStr(icon)],
       [k |-> "title", v |-> title],
       [k |-> "keywords", v |-> PyStr(keywords)],
       [k |-> "features", v |-> PyList(features)],
       [k |-> "description", v |-> PyStr(description)],
       [k |-> "url", v |-> PyStr(url)],
       [k |-> "rank", v |-> PyInt(rank)] >>

Returned(config) == [kind |-> "config", config |-> config, exc |-> ""]
ReturnedNone == [kind |-> "None", config |-> <<>>, exc |-> ""]
Raise(exc) == [kind |-> "raise", config |-> <<>>, exc |-> exc]

\* the part of parse_html_config after the visibility gate (lines 46-80)
ParseVisible(doc, file_path) ==
    IF MetaRaises(doc, "keywords") \/ MetaRaises(doc, "description")
       \/ MetaRaises(doc, "icon") \/ MetaRaises(doc, "features")
       \/ MetaRaises(doc, "rank")
    THEN Raise("KeyError")
    ELSE IF FindMeta(doc, "rank") # 0 /\ ~IntLiteral(MetaContent(doc, "rank", <<>>))
    THEN Raise("ValueError")
    ELSE Returned(BuildConfig(
            MetaContent(doc, "icon", <<>>),
            TitleOf(doc, file_path),
            MetaContent(doc, "keywords", <<>>),
            FeaturesOf(doc),
            MetaContent(doc, "description", <<>>),
            UrlOf(file_path),
            IF FindMeta(doc, "rank") = 0 THEN 0
            ELSE IntValue(MetaContent(doc, "rank", <<>>))))

\* a mutant of ParseDoc: the rank is converted before the gate is looked at
ParseDocRankFirst(doc, file_path) ==
    IF FindMeta(doc, "rank") # 0 /\ ~MetaRaises(doc, "rank")
       /\ ~IntLiteral(MetaContent(doc, "rank", <<>>))
    THEN Raise("ValueError")
    ELSE IF MetaRaises(doc, "show") THEN Raise("KeyError")
    ELSE IF Hidden(ShowOf(doc)) THEN ReturnedNone
    ELSE ParseVisible(doc, file_path)

\* parse_html_config on the document read from file_path (lines 38-80)
ParseDoc(doc, file_path) ==
    IF MetaRaises(doc, "show") THEN Raise("KeyError")
    ELSE IF Hidden(ShowOf(doc)) THEN ReturnedNone
    ELSE ParseVisible(doc, file_path)

\* parse_html_config(file_path): the file is read and parsed (lines 36-38)
parse_html_config(file_path) == ParseDoc(content[file_path], file_path)

-----------------------------------------------------------------------------
(* get_html_files                                                          *)

RECURSIVE Flatten(_)
Flatten(ss) == IF ss = <<>> THEN <<>> ELSE Head(ss) \o Flatten(Tail(ss))

\* os.walk(top), top-down with followlinks=False: the directory itself, then
\* each subdirectory in the order of dirs; a symbolic link to a directory is
\* listed in dirs and not walked into
RECURSIVE Walk(_)
Walk(top) ==
    LET e == listing[top] IN
    <<[root |-> top, dirs |-> e.dirs, files |-> e.files]>>
    \o Flatten([i \in 1..Len(e.dirs) |->
                  IF e.dirs[i] \in e.links THEN <<>>
                  ELSE Walk(PathJoin(top, e.dirs[i]))])

\* lines 25-28: the html files of one walk step, joined to its root
HtmlOf(step) ==
    LET html == SelectSeq(step.files, LAMBDA f : EndsWith(f, Str_dot_html))
    IN [i \in 1..Len(html) |-> PathJoin(step.root, html[i])]

\* lines 15-31
get_html_files(directory) ==
    LET w == Walk(directory) IN Flatten([i \in 1..Len(w) |-> HtmlOf(w[i])])

-----------------------------------------------------------------------------
(* json.dump(configs, f, ensure_ascii=False, indent=4)                     *)

JsonType(v) ==
    CASE v.t = "str" -> "string"
      [] v.t = "NoneType" -> "null"
      [] v.t = "int" -> "number"
      [] v.t = "list" -> "array"

\* a dict is written as an object, its members in the dict's iteration order
JsonObject(d) ==
    [i \in 1..Len(d) |-> [k |-> d[i].k, j |-> JsonType(d[i].v), v |-> d[i].v]]

JsonDump(ts) == [i \in 1..Len(ts) |-> JsonObject(ts[i])]

\* tools-config.json before the builder ever wrote it
Untouched == [writes |-> 0, tools |-> <<>>]

-----------------------------------------------------------------------------
(* The builder: module globals, gen_config, save_config.                   *)

\* a mutant of AppendTool: the new config is put in front
PrependTool(ts, config) == <<config>> \o ts

\* line 92: tools.append(config)
AppendTool(ts, config) == Append(ts, config)

\* lines 103-104 run once more in the same process: line 86 and the loop
\* set-up of line 89, after the previous manifest has been saved; tools is the
\* module global and is not reset
GenConfigCall ==
    /\ pc \in {"main", "saved"}
    /\ runs < MaxRuns
    /\ html_files' = get_html_files(Str_pages)
    /\ idx' = 1
    /\ parsed' = <<>>
    /\ runs' = runs + 1
    /\ pc' = "loop"
    /\ UNCHANGED <<listing, content, tools, disk, raised, firstTools>>
    /\ UNCHANGED svars

\* lines 89-92: one iteration of the loop
GenConfigLoop ==
    /\ pc = "loop"
    /\ idx <= Len(html_files)
    /\ parsed' = Append(parsed, html_files[idx])
    /\ LET r == parse_html_config(html_files[idx]) IN
       \/ /\ r.kind = "config"
          /\ tools' = AppendTool(tools, r.config)
          /\ idx' = idx + 1
          /\ UNCHANGED <<pc, raised>>
       \/ /\ r.kind = "None"
          /\ idx' = idx + 1
          /\ UNCHANGED <<tools, pc, raised>>
       \/ /\ r.kind = "raise"
          /\ pc' = "aborted"
          /\ raised' = r.exc
          /\ UNCHANGED <<tools, idx>>
    /\ UNCHANGED <<listing, content, html_files, runs, disk, firstTools>>
    /\ UNCHANGED svars

\* line 94: return configs
GenConfigReturn ==
    /\ pc = "loop"
    /\ idx > Len(html_files)
    /\ pc' = "returned"
    /\ firstTools' = IF runs = 1 THEN tools ELSE firstTools
    /\ UNCHANGED <<listing, content, tools, html_files, idx, parsed, runs, disk, raised>>
    /\ UNCHANGED svars

\* lines 96-100
SaveConfig ==
    /\ pc = "returned"
    /\ disk' = [writes |-> disk.writes + 1, tools |-> JsonDump(tools)]
    /\ pc' = "saved"
    /\ UNCHANGED <<listing, content, tools, html_files, idx, parsed, runs, raised,
                   firstTools>>
    /\ UNCHANGED svars

-----------------------------------------------------------------------------
(* The trees and documents the builder is run on.                          *)

Str_tools == <<"t", "o", "o", "l", "s">>
Str_deep == <<"d", "e", "e", "p">>
Str_calc == <<"c", "a", "l", "c">>
Str_x_html == <<"x">> \o Str_dot_html
Str_a_b_html == <<"a", ".", "b">> \o Str_dot_html
Str_n_txt == <<"n", ".", "t", "x", "t">>
Str_link == <<"l", "i", "n", "k">>
Str_y_html == <<"y">> \o Str_dot_html
Str_X == <<"X">>
Str_5 == <<"5">>
Str_bad == <<"x">>

Dir_pages == Str_pages
Dir_tools == PathJoin(Dir_pages, Str_tools)
Dir_deep == PathJoin(Dir_tools, Str_deep)
Dir_calc == PathJoin(Dir_pages, Str_calc)
Dir_link == PathJoin(Dir_pages, Str_link)

\* the directories of the tree; pages/link is a symbolic link to a directory
\* outside pages/ that holds y.html
DirPaths(withLink) ==
    {Dir_pages, Dir_tools, Dir_deep, Dir_calc} \cup (IF withLink THEN {Dir_link} ELSE {})

\* where a file may be put
Placements ==
    << [dir |-> Dir_pages, name |-> Str_x_html],
       [dir |-> Dir_pages, name |-> Str_n_txt],
       [dir |-> Dir_deep, name |-> Str_a_b_html],
       [dir |-> Dir_calc, name |-> Str_x_html] >>

DocNoShow == [title |-> NoTitle, metas |-> <<Meta("rank", Str_bad)>>]
DocShowFalse ==
    [title |-> Title(<<Str_X>>),
     metas |-> <<Meta("show", Str_false), Meta("rank", Str_5)>>]
DocFull ==
    [title |-> Title(<<Str_X>>),
     metas |-> <<Meta("show", Str_true), Meta("keywords", <<"k">>),
                 Meta("description", <<"d">>), Meta("icon", <<"i">>),
                 Meta("features", <<"a", FullWidthComma, " ", "b">>),
                 Meta("features", <<"c">>), Meta("rank", <<"\t", "U+FF15", "\n">>)>>]
DocBadRank ==
    [title |-> Title(<<Str_X>>),
     metas |-> <<Meta("show", Str_true), Meta("rank", Str_bad)>>]
DocMinimal == [title |-> NoTitle, metas |-> <<Meta("show", <<>>)>>]
DocEmptyTitle ==
    [title |-> Title(<<>>),
     metas |-> <<Meta("show", <<"F", "a", "l", "s", "e">>), Meta("rank", <<"-", "1", "_", "0">>)>>]

Docs == {DocNoShow, DocShowFalse, DocFull, DocBadRank, DocMinimal, DocEmptyTitle}

\* the orders in which scandir may list the names of S
Orders(S) ==
    { q \in [1..Cardinality(S) -> S] : \A i, j \in 1..Cardinality(S) : i # j => q[i] # q[j] }

\* the subdirectories of directory d
SubdirsOf(d, withLink) ==
    IF d = Dir_pages THEN {Str_calc, Str_tools} \cup (IF withLink THEN {Str_link} ELSE {})
    ELSE IF d = Dir_tools THEN {Str_deep}
    ELSE {}

\* the names of the chosen placements that lie in directory d
FilesIn(chosen, d) ==
    { Placements[i].name : i \in { j \in chosen : Placements[j].dir = d } }
    \cup (IF d = Dir_link THEN {Str_y_html} ELSE {})

PathOf(i) == PathJoin(Placements[i].dir, Placements[i].name)

BuilderStart ==
    /\ tools = <<>>
    /\ html_files = <<>>
    /\ idx = 1
    /\ parsed = <<>>
    /\ pc = "main"
    /\ runs = 0
    /\ disk = Untouched
    /\ raised = ""
    /\ firstTools = <<>>

\* a tree of at most MaxFiles files with documents of docSet, with or without
\* the symbolic link; pages/ lists its directories and its files each in any
\* order, and every other directory holds at most one name of each kind
TreeInit(docSet) ==
    \E chosen \in SUBSET (1..Len(Placements)), withLink \in BOOLEAN :
      /\ Cardinality(chosen) \in 1..MaxFiles
      /\ \E docs \in [chosen -> docSet] :
           /\ \E dq \in Orders(SubdirsOf(Dir_pages, withLink)),
                 fq \in Orders(FilesIn(chosen, Dir_pages)) :
                listing =
                  [d \in DirPaths(withLink) |->
                     [dirs |-> IF d = Dir_pages THEN dq
                               ELSE CHOOSE q \in Orders(SubdirsOf(d, withLink)) : TRUE,
                      files |-> IF d = Dir_pages THEN fq
                                ELSE CHOOSE q \in Orders(FilesIn(chosen, d)) : TRUE,
                      links |-> IF d = Dir_pages /\ withLink THEN {Str_link} ELSE {}]]
           /\ content =
                [p \in {PathOf(i) : i \in chosen}
                       \cup (IF withLink THEN {PathJoin(Dir_link, Str_y_html)} ELSE {}) |->
                   IF p = PathJoin(Dir_link, Str_y_html) THEN DocMinimal
                   ELSE docs[CHOOSE i \in chosen : PathOf(i) = p]]

-----------------------------------------------------------------------------
(* The documents of the features runs: one file, pages/x.html, whose       *)
(* features content ranges over every string of at most MaxLen characters. *)

FeatureChars == {"a", " ", FullWidthComma}

FeatureStrings == UNION { [1..n -> FeatureChars] : n \in 0..MaxLen }

FeatureTags ==
    {<<>>, <<BareMeta("features")>>}
    \cup { <<Meta("features", c)>> : c \in FeatureStrings }
    \cup { <<Meta("features", c), Meta("features", <<"z">>)>> : c \in FeatureStrings }

ShowTags == { <<>>, <<BareMeta("show")>>, <<Meta("show", Str_true)>> }

FeatureDocs ==
    { [title |-> NoTitle, metas |-> sh \o ft] : sh \in ShowTags, ft \in FeatureTags }

FeatureTreeInit ==
    \E doc \in FeatureDocs :
        /\ listing = [d \in {Dir_pages} |->
                        [dirs |-> <<>>, files |-> <<Str_x_html>>, links |-> {}]]
        /\ content = [p \in {PathJoin(Dir_pages, Str_x_html)} |-> doc]

-----------------------------------------------------------------------------
(* start_server.py                                                         *)

PORT == 8001
HTML_PATH == "pages/calculate/calculator-hub.html"

\* errno values of "address already in use": BSD and macOS, Linux, Windows
AddrInUseErrnos == {48, 98, 10048}

\* what the host will answer:
\*   chdir   : os.chdir(script_dir) succeeds
\*   exists  : Path(HTML_PATH).exists()
\*   bind    : 0 when TCPServer(("", PORT), ...) binds, else the errno of its OSError
\*   browser : webbrowser.open returns without raising
\*   serve   : the exception that ends serve_forever
Environments ==
    [chdir : BOOLEAN, exists : BOOLEAN, bind : {0, 13} \cup AddrInUseErrnos,
     browser : BOOLEAN, serve : {"KeyboardInterrupt", "OSError", "RuntimeError"}]

ServerStart ==
    /\ spc = "main"
    /\ out = <<>>
    /\ bound = FALSE
    /\ browserOpened = FALSE
    /\ served = FALSE
    /\ pending = [exc |-> "", errno |-> 0]
    /\ exitStatus = -1

ServerIdle ==
    /\ env = [chdir |-> TRUE, exists |-> TRUE, bind |-> 0, browser |-> TRUE,
              serve |-> "KeyboardInterrupt"]
    /\ ServerStart

BuilderIdle ==
    /\ listing = [d \in {Dir_pages} |-> [dirs |-> <<>>, files |-> <<>>, links |-> {}]]
    /\ content = <<>>
    /\ BuilderStart

\* lines 16-17: os.chdir is outside the try, its OSError escapes start_server
Chdir ==
    /\ spc = "main"
    /\ IF env.chdir THEN spc' = "check" /\ UNCHANGED pending
       ELSE spc' = "main_except" /\ pending' = [exc |-> "OSError", errno |-> 2]
    /\ UNCHANGED <<env, out, bound, browserOpened, served, exitStatus>>
    /\ UNCHANGED bvars

\* lines 23-25
CheckFile ==
    /\ spc = "check"
    /\ IF env.exists THEN spc' = "bind" /\ UNCHANGED out
       ELSE spc' = "returned_false" /\ out' = Append(out, "missing_file")
    /\ UNCHANGED <<env, bound, browserOpened, served, pending, exitStatus>>
    /\ UNCHANGED bvars

\* lines 35-41: the TCPServer constructor binds the port or raises OSError
Bind ==
    /\ spc = "bind"
    /\ IF env.bind = 0
       THEN /\ bound' = TRUE
            /\ out' = out \o <<"starting", "directory", "address", "how_to_stop">>
            /\ spc' = "browser"
            /\ UNCHANGED pending
       ELSE /\ pending' = [exc |-> "OSError", errno |-> env.bind]
            /\ spc' = "except_oserror"
            /\ UNCHANGED <<bound, out>>
    /\ UNCHANGED <<env, browserOpened, served, exitStatus>>
    /\ UNCHANGED bvars

\* lines 44-48: the bare except swallows whatever webbrowser.open raises
OpenBrowser ==
    /\ spc = "browser"
    /\ browserOpened' = TRUE
    /\ out' = Append(out, IF env.browser THEN "browser_opened" ELSE "browser_failed")
    /\ spc' = "serve"
    /\ UNCHANGED <<env, bound, served, pending, exitStatus>>
    /\ UNCHANGED bvars

\* line 51
ServeForever ==
    /\ spc = "serve"
    /\ served' = TRUE
    /\ spc' = "serving"
    /\ UNCHANGED <<env, out, bound, browserOpened, pending, exitStatus>>
    /\ UNCHANGED bvars

\* serve_forever ends by an exception; the with block closes the socket, an
\* OSError is caught at line 53, anything else leaves start_server
ServeEnds ==
    /\ spc = "serving"
    /\ bound' = FALSE
    /\ pending' = [exc |-> env.serve, errno |-> IF env.serve = "OSError" THEN 9 ELSE 0]
    /\ spc' = IF env.serve = "OSError" THEN "except_oserror" ELSE "main_except"
    /\ UNCHANGED <<env, out, browserOpened, served, exitStatus>>
    /\ UNCHANGED bvars

\* line 54: e.errno == 48
IsAddrInUse(errno) == errno = 48

\* lines 53-63
HandleOSError ==
    /\ spc = "except_oserror"
    /\ out' = IF IsAddrInUse(pending.errno)
              THEN out \o <<"port_in_use", "try_address", "or_kill", "cmd_ps", "cmd_kill">>
              ELSE Append(out, "start_failed")
    /\ pending' = [exc |-> "", errno |-> 0]
    /\ spc' = "returned_false"
    /\ UNCHANGED <<env, bound, browserOpened, served, exitStatus>>
    /\ UNCHANGED bvars

\* line 69: the value start_server returns is dropped and the script ends
MainReturns ==
    /\ spc = "returned_false"
    /\ exitStatus' = 0
    /\ spc' = "exited"
    /\ UNCHANGED <<env, out, bound, browserOpened, served, pending>>
    /\ UNCHANGED bvars

\* lines 70-75
MainExcept ==
    /\ spc = "main_except"
    /\ IF pending.exc = "KeyboardInterrupt"
       THEN out' = Append(out, "stopped") /\ exitStatus' = 0
       ELSE out' = Append(out, "error") /\ exitStatus' = 1
    /\ spc' = "exited"
    /\ UNCHANGED <<env, bound, browserOpened, served, pending>>
    /\ UNCHANGED bvars

-----------------------------------------------------------------------------
(* Specifications.                                                         *)

\* the builder on the trees of at most MaxFiles files
Init == TreeInit(Docs) /\ BuilderStart /\ ServerIdle

Next == GenConfigCall \/ GenConfigLoop \/ GenConfigReturn \/ SaveConfig

Spec == Init /\ [][Next]_vars

\* the builder on one file whose features content is drawn from FeatureStrings
InitFeatures == FeatureTreeInit /\ BuilderStart /\ ServerIdle

SpecFeatures == InitFeatures /\ [][Next]_vars

\* the launcher in every environment
InitServer == env \in Environments /\ ServerStart /\ BuilderIdle

NextServer ==
    \/ Chdir
    \/ CheckFile
    \/ Bind
    \/ OpenBrowser
    \/ ServeForever
    \/ ServeEnds
    \/ HandleOSError
    \/ MainReturns
    \/ MainExcept

SpecServer == InitServer /\ [][NextServer]_vars

-----------------------------------------------------------------------------
(* Vocabulary of the properties.                                           *)

Range(q) == { q[i] : i \in 1..Len(q) }

\* sep.join(parts)
RECURSIVE Join(_, _)
Join(parts, sep) ==
    IF Len(parts) = 0 THEN <<>>
    ELSE IF Len(parts) = 1 THEN parts[1]
    ELSE parts[1] \o <<sep>> \o Join(Tail(parts), sep)

\* number of occurrences of character c in s
RECURSIVE Count(_, _)
Count(s, c) ==
    IF s = <<>> THEN 0
    ELSE (IF Head(s) = c THEN 1 ELSE 0) + Count(Tail(s), c)

\* the <meta name=...> tags of a document, by position
TagsNamed(doc, name) == { i \in 1..Len(doc.metas) : doc.metas[i].name = name }

FirstTag(doc, name) ==
    LET T == TagsNamed(doc, name) IN
    doc.metas[CHOOSE i \in T : \A j \in T : i <= j]

\* the document has a show tag whose content is not exactly "false"
PassesGate(doc) ==
    /\ TagsNamed(doc, "show") # {}
    /\ LET t == FirstTag(doc, "show") IN t.hasContent /\ t.content # Str_false

\* the document has no show tag, or its show content is "false"
FailsGate(doc) ==
    \/ TagsNamed(doc, "show") = {}
    \/ LET t == FirstTag(doc, "show") IN t.hasContent /\ t.content = Str_false

\* the tools entries, by position
Entries == 1..Len(tools)

UrlOfEntry(k) == Get(tools[k], "url").s

HasEntry(f) == \E k \in Entries : UrlOfEntry(k) = f

\* what parse_html_config gives for each file of the walk
Results == [f \in Range(html_files) |-> parse_html_config(f)]

\* which files of the tree pass the gate
Gate == [f \in DOMAIN content |-> PassesGate(content[f])]

\* the files an entry was built from, res being Results
SourcesOf(res, e) == { f \in DOMAIN res : res[f] = Returned(e) }

\* the path of p relative to directory start, for p below start
RelativeTo(p, start) == DropBefore(p, Len(start) + 2)

\* the base name without its extension: everything before the last dot
StripExtension(name) ==
    IF RFindFrom(name, ".", Len(name)) <= 1 THEN name
    ELSE SubSeq(name, 1, RFindFrom(name, ".", Len(name)) - 1)

GateFiles == SelectSeq(html_files, LAMBDA f : PassesGate(content[f]))

Completed == pc \in {"returned", "saved"}

-----------------------------------------------------------------------------
(* C1 as stated: for every file of the walk, parse_html_config returns an  *)
(* entry exactly when the document has a show tag whose content is not     *)
(* "false", and once gen_config has ended, by returning or by an           *)
(* exception, the file has an entry in tools exactly in that case.         *)
C1_GateForEveryFile ==
    LET res == Results
        gate == Gate
        urls == { UrlOfEntry(k) : k \in Entries }
    IN \A i \in 1..Len(html_files) :
         LET f == html_files[i] IN
         /\ res[f].kind = "config" <=> gate[f]
         /\ pc \in {"returned", "saved", "aborted"} => (f \in urls <=> gate[f])

(* C1 amended: for every file of the walk on which parse_html_config does  *)
(* not raise, it returns an entry exactly when the document has a show tag *)
(* whose content is not "false"; every file gen_config has got past has an *)
(* entry in tools exactly in that case; a file on which it raises passes   *)
(* the gate and has no entry in tools; and no entry of tools ever comes    *)
(* from a file without a show tag or with show content "false".            *)
C1_GateWhenParseReturns ==
    LET res == Results
        gate == Gate
        urls == { UrlOfEntry(k) : k \in Entries }
    IN /\ \A i \in 1..Len(html_files) :
            LET f == html_files[i] IN
            /\ res[f].kind # "raise" => (res[f].kind = "config" <=> gate[f])
            /\ res[f].kind = "raise" => gate[f] /\ f \notin urls
            /\ i < idx => (f \in urls <=> gate[f])
       /\ \A f \in DOMAIN content : gate[f] => ~FailsGate(content[f])
       /\ \A k \in Entries :
            /\ UrlOfEntry(k) \in DOMAIN content
            /\ gate[UrlOfEntry(k)]

\* a completed run over a file without show tag, a file with show "false" and
\* a file that passes the gate
C1_Witness ==
    /\ Completed
    /\ \E f \in Range(html_files) : TagsNamed(content[f], "show") = {} /\ ~HasEntry(f)
    /\ \E f \in Range(html_files) :
         /\ TagsNamed(content[f], "show") # {}
         /\ FailsGate(content[f])
         /\ ~HasEntry(f)
    /\ \E f \in Range(html_files) : PassesGate(content[f]) /\ HasEntry(f)

(* C2: after one gen_config run that completes, tools is the traversal     *)
(* sequence restricted to the files that pass the gate: one entry per such *)
(* file, nothing else, in traversal order.                                 *)
C2_TraversalOrder ==
    (Completed /\ runs = 1) =>
        /\ Len(tools) = Len(GateFiles)
        /\ \A k \in Entries :
             /\ UrlOfEntry(k) = GateFiles[k]
             /\ parse_html_config(GateFiles[k]) = Returned(tools[k])

\* a completed first run over three html files, the middle one hidden
C2_Witness ==
    /\ Completed
    /\ runs = 1
    /\ Len(html_files) = 3
    /\ ~PassesGate(content[html_files[2]])
    /\ Len(tools) = 2
    /\ UrlOfEntry(1) = html_files[1]
    /\ UrlOfEntry(2) = html_files[3]

(* C3 as stated: every entry's url is its source file's path relative to   *)
(* the scan root "pages".                                                  *)
C3_UrlRelativeToScanRoot ==
    LET res == Results IN
    \A k \in Entries :
        \A f \in SourcesOf(res, tools[k]) : UrlOfEntry(k) = RelativeTo(f, Str_pages)

(* C3 amended: every entry's url is the scan root "pages" joined with its  *)
(* source file's path relative to the scan root, that is the path relative *)
(* to the working directory, at any nesting depth.                         *)
C3_UrlIncludesScanRoot ==
    LET res == Results IN
    \A k \in Entries :
        /\ SourcesOf(res, tools[k]) # {}
        /\ \A f \in SourcesOf(res, tools[k]) :
             /\ UrlOfEntry(k) = Str_pages \o <<"/">> \o RelativeTo(f, Str_pages)
             /\ UrlOfEntry(k) = f

\* entries for a file directly under pages/ and for one two directories down
C3_Witness ==
    /\ \E k \in Entries : UrlOfEntry(k) = PathJoin(Dir_pages, Str_x_html)
    /\ \E k \in Entries : UrlOfEntry(k) = PathJoin(Dir_deep, Str_a_b_html)

(* C4 as stated: every entry's title is a string: the title element's text *)
(* when there is a title element (the empty string for an empty element),  *)
(* and the base name without its extension when there is none.             *)
C4_TitleIsString ==
    LET res == Results IN
    \A k \in Entries :
        \A f \in SourcesOf(res, tools[k]) :
            Get(tools[k], "title") =
                IF content[f].title.present
                THEN PyStr(Flatten(content[f].title.children))
                ELSE PyStr(StripExtension(Basename(f)))

(* C5 as stated: every object of the written manifest lists its fields in  *)
(* the order of the data-model table.                                      *)
C5_TableFieldOrder ==
    pc = "saved" =>
        \A k \in 1..Len(disk.tools) :
            Keys(disk.tools[k]) =
                <<"title", "keywords", "description", "icon", "features", "url", "rank">>

(* C5 amended: every object of the written manifest lists its fields in    *)
(* the order icon, title, keywords, features, description, url, rank, the  *)
(* same for every entry.                                                   *)
C5_DictFieldOrder ==
    pc = "saved" =>
        /\ Len(disk.tools) = Len(tools)
        /\ \A k \in 1..Len(disk.tools) :
             Keys(disk.tools[k]) =
                 <<"icon", "title", "keywords", "features", "description", "url", "rank">>

\* a manifest of two entries has been written
C5_Witness == pc = "saved" /\ disk.writes = 1 /\ Len(disk.tools) = 2

(* C6: the tools sequence returned by a second gen_config invocation on    *)
(* the unchanged tree equals the one the first invocation returned.        *)
C6_Idempotent ==
    (pc = "returned" /\ runs = 2) => tools = firstTools

(* C7: the loop never gets past a file that raises; when a file raises,    *)
(* gen_config stops at it with no later file parsed, nothing runs after    *)
(* it, save_config is not reached and tools-config.json is as it was; a    *)
(* manifest is only written by runs in which no file raises; and a file    *)
(* that fails the gate never raises, whatever its rank content.            *)
C7_FailFast ==
    LET all == [f \in DOMAIN content |-> parse_html_config(f)]
        res == [f \in Range(html_files) |-> all[f]]
    IN /\ \A i \in 1..Len(html_files) :
            i < idx => res[html_files[i]].kind # "raise"
       /\ pc = "aborted" =>
            /\ idx \in 1..Len(html_files)
            /\ res[html_files[idx]].kind = "raise"
            /\ raised = res[html_files[idx]].exc
            /\ parsed = SubSeq(html_files, 1, idx)
            /\ \A k \in Entries : \E i \in 1..(idx - 1) : UrlOfEntry(k) = html_files[i]
            /\ disk = Untouched
            /\ ~ENABLED Next
            /\ ~FailsGate(content[html_files[idx]])
       /\ (Completed \/ disk # Untouched) =>
            \A f \in Range(html_files) : res[f].kind # "raise"
       /\ \A f \in DOMAIN content :
            FailsGate(content[f]) => all[f].kind = "None"
       /\ \A f \in DOMAIN content :
            ( /\ PassesGate(content[f])
              /\ TagsNamed(content[f], "rank") # {}
              /\ ~IntLiteral(FirstTag(content[f], "rank").content) )
            => all[f].kind = "raise"

\* the run stopped at its second file on a rank that is no integer, after a
\* hidden first file with such a rank, with a third file left unparsed
C7_Witness ==
    /\ pc = "aborted"
    /\ raised = "ValueError"
    /\ idx = 2
    /\ Len(html_files) = 3
    /\ FailsGate(content[html_files[1]])
    /\ TagsNamed(content[html_files[1]], "rank") # {}
    /\ ~IntLiteral(FirstTag(content[html_files[1]], "rank").content)
    /\ PassesGate(content[html_files[3]])

(* C10: for every entry, features is the content of the first features tag *)
(* (the empty string when there is none) split on the full-width comma     *)
(* without trimming: one element more than there are separators, joined    *)
(* back the original content, and never the empty sequence.                *)
C10_FeaturesSplit ==
    \A k \in Entries :
        LET doc == content[UrlOfEntry(k)]
            raw == IF TagsNamed(doc, "features") = {} THEN <<>>
                   ELSE FirstTag(doc, "features").content
            fl == Get(tools[k], "features").l
        IN /\ Get(tools[k], "features").t = "list"
           /\ Len(fl) = Count(raw, FullWidthComma) + 1
           /\ Join(fl, FullWidthComma) = raw
           /\ \A j \in 1..Len(fl) : Count(fl[j], FullWidthComma) = 0
           /\ raw = <<>> => fl = << <<>> >>

\* an entry whose features content is separator, blank, separator
C10_Witness ==
    \E k \in Entries :
        /\ TagsNamed(content[UrlOfEntry(k)], "features") # {}
        /\ FirstTag(content[UrlOfEntry(k)], "features").content
             = <<FullWidthComma, " ", FullWidthComma>>
        /\ Get(tools[k], "features").l = << <<>>, <<" ">>, <<>> >>

-----------------------------------------------------------------------------
(* The launcher.                                                           *)

BindFailedInUse == env.chdir /\ env.exists /\ env.bind \in AddrInUseErrnos

FileMissing == env.chdir /\ ~env.exists

(* C8: whenever binding fails because the port is already bound, whatever  *)
(* the errno the host reports for it, the launcher has reported the        *)
(* conflict and the commands to find and kill the process by the time it   *)
(* returns, and never opens the browser nor serves.                        *)
C8_PortConflictReported ==
    BindFailedInUse =>
        /\ ~browserOpened
        /\ ~served
        /\ spc \in {"returned_false", "exited"} =>
             {"port_in_use", "cmd_ps", "cmd_kill"} \subseteq Range(out)

(* C9: the exit status is 0 after a keyboard interrupt, 1 after an         *)
(* exception that escapes start_server, non-zero after an early return for *)
(* a missing page file or an occupied port; with the file missing no port  *)
(* is bound and no browser opened.                                         *)
C9_ExitStatus ==
    /\ FileMissing => ~bound /\ ~browserOpened
    /\ spc = "exited" =>
         /\ "stopped" \in Range(out) => exitStatus = 0
         /\ "error" \in Range(out) => exitStatus = 1
         /\ (FileMissing \/ BindFailedInUse) => exitStatus # 0

=============================================================================
